---------------------------- MODULE Spec2Model ----------------------------
(***************************************************************************)
(* A model of the Workday RaaS client: RaasClient (src/lib/client.ts), its  *)
(* token cache and refresh, and WorkdayRequest (src/unnamed/part_000), its  *)
(* parameter builder and the json()/xml()/csv() terminal calls.             *)
(*                                                                         *)
(* Strings the code inspects character by character (parameter values) are *)
(* sequences of one-character strings.  Error messages and URLs are        *)
(* sequences of fragments, so that "the message contains the body" and     *)
(* "the query string is k=v&format=json" are statements about sequences.   *)
(***************************************************************************)
EXTENDS Integers, Sequences, FiniteSets, TLC

VARIABLES now, token, params, added, calls, fmtIn, fmtOut, expOut

vars == <<now, token, params, added, calls, fmtIn, fmtOut, expOut>>

(***************************** bounds **************************************)
\* longest parameter string fed to formatQueryParams (characters in total)
MaxLen == 4
\* longest list fed to formatQueryParams
MaxList == 2
\* largest expiration claim (seconds) and latest clock reading (seconds)
MaxExp == 2
MaxNow == 3
\* param() calls on one request
MaxParams == 2

\* Date.now() is in milliseconds, the exp claim in seconds
MsPerSec == 1000
ClockStep == MsPerSec \div 2
Times == {t * ClockStep : t \in 0..((MaxNow * MsPerSec) \div ClockStep)}

(***************************** strings *************************************)
Space == " "
Tab == "\t"
WhiteSpace == {Space, Tab}
Chars == {"a", Space, Tab}

RECURSIVE StrsOfLen(_)
StrsOfLen(n) ==
  IF n = 0 THEN {<<>>}
  ELSE {<<c>> \o s : c \in Chars, s \in StrsOfLen(n - 1)}

Strs(n) == UNION {StrsOfLen(k) : k \in 0..n}

\* lists of at most k strings holding at most n characters in total
RECURSIVE Lists(_, _)
Lists(k, n) ==
  IF k = 0 THEN {<<>>}
  ELSE {<<>>} \cup
       UNION {{<<s>> \o l : l \in Lists(k - 1, n - Len(s))} : s \in Strs(n)}

RECURSIVE TrimStart(_)
TrimStart(s) ==
  IF s # <<>> /\ Head(s) \in WhiteSpace THEN TrimStart(Tail(s)) ELSE s

RECURSIVE TrimEnd(_)
TrimEnd(s) ==
  IF s # <<>> /\ s[Len(s)] \in WhiteSpace
  THEN TrimEnd(SubSeq(s, 1, Len(s) - 1)) ELSE s

\* String.prototype.trim
Trim(s) == TrimEnd(TrimStart(s))

\* String.prototype.split(sep) for a one-character separator: the pieces
\* between separators, empty pieces included; "" splits into [""]
RECURSIVE SplitFrom(_, _, _)
SplitFrom(s, sep, cur) ==
  IF s = <<>> THEN <<cur>>
  ELSE IF Head(s) = sep THEN <<cur>> \o SplitFrom(Tail(s), sep, <<>>)
  ELSE SplitFrom(Tail(s), sep, Append(cur, Head(s)))

Split(s, sep) == SplitFrom(s, sep, <<>>)

\* Array.prototype.join(sep) on an array of strings; [] joins to ""
RECURSIVE Join(_, _)
Join(parts, sep) ==
  IF parts = <<>> THEN <<>>
  ELSE IF Len(parts) = 1 THEN parts[1]
  ELSE parts[1] \o <<sep>> \o Join(Tail(parts), sep)

\* a param() value: a single string or a list of strings
StrArg(s) == [tag |-> "string", str |-> s, list |-> <<>>]
ListArg(l) == [tag |-> "list", str |-> <<>>, list |-> l]

\* variant: the values are not trimmed before the spaces are replaced
FormatOneSplitOnly(value) == Join(Split(value, Space), "_")
FormatOne(value) == Join(Split(Trim(value), Space), "_")

formatQueryParamsNoTrim(p) ==
  IF p.tag = "string" THEN p.str
  ELSE Join([i \in 1..Len(p.list) |-> FormatOneSplitOnly(p.list[i])], "!")

formatQueryParams(p) ==
  IF p.tag = "string" THEN p.str
  ELSE Join([i \in 1..Len(p.list) |-> FormatOne(p.list[i])], "!")


(***************************** errors **************************************)
NoErr == [class |-> "none", msg |-> <<>>]
Err(class, msg) == [class |-> class, msg |-> msg]
InternalError(msg) == Err("InternalError", msg)

isGeneratedError(err) == err.class = "InternalError"

\* `${err}`: the error's name and message
ErrToString(err) == <<err.class, ": ">> \o err.msg

\* how many times an error has been wrapped by one of the library's catch
\* blocks: each wrapping interpolates the caught error after its own prefix
WrapPrefixes ==
  { "The format of the token was invalid: ",
    "An error occured during the auth request to Workday: ",
    "An error occured during the JSON request to Workday: ",
    "An error occured during the XML request to Workday: " }

Contains(msg, frag) == \E i \in 1..Len(msg) : msg[i] = frag

(***************************** tokens **************************************)
\* the token field and access_token values: undefined, "", a non-empty
\* string that is no JWT, or a JWT whose payload has no exp, a numeric exp,
\* a numeric string exp, or an exp that is no number at all
Tok(shape, expKind, exp) == [shape |-> shape, expKind |-> expKind, exp |-> exp]
Undefined == Tok("undefined", "absent", 0)
EmptyTok == Tok("empty", "absent", 0)
Garbage == Tok("garbage", "absent", 0)
JwtNoExp == Tok("jwt", "absent", 0)
JwtBadExp == Tok("jwt", "badstr", 0)
Jwt(n) == Tok("jwt", "number", n)
JwtStr(n) == Tok("jwt", "numstr", n)

Strings == {EmptyTok, Garbage, JwtNoExp, JwtBadExp}
             \cup {Jwt(n) : n \in 0..MaxExp} \cup {JwtStr(n) : n \in 0..MaxExp}

\* !token
Falsy(tok) == tok.shape \in {"undefined", "empty"}

Decoded(payload) == [kind |-> "return", payload |-> payload, err |-> NoErr]
DecodeFailed(err) == [kind |-> "throw", payload |-> Undefined, err |-> err]

\* jwtDecode<JwtPayload>(token): the payload, or InvalidTokenError
jwtDecode(tok) ==
  IF tok.shape = "jwt" THEN Decoded(tok)
  ELSE DecodeFailed(Err("InvalidTokenError", <<"Invalid token specified">>))

RetBool(b) == [kind |-> "return", val |-> b, err |-> NoErr]
ThrowBool(err) == [kind |-> "throw", val |-> FALSE, err |-> err]

\* Date.now() >= exp * 1000, with exp coerced to a number (NaN compares false)
NotBefore(t, payload) ==
  IF payload.expKind = "badstr" THEN FALSE ELSE t >= payload.exp * MsPerSec

\* variant: a token is still good in the millisecond of its expiry (> for >=)
isTokenExpiredStrict(tok, t) ==
  LET d == jwtDecode(tok) IN
  IF d.kind = "throw"
  THEN ThrowBool(InternalError(<<"The format of the token was invalid: ">>
                               \o ErrToString(d.err) \o <<".">>))
  ELSE IF d.payload.expKind = "absent" THEN RetBool(TRUE)
  ELSE RetBool(d.payload.expKind # "badstr" /\ t > d.payload.exp * MsPerSec)

isTokenExpired(tok, t) ==
  LET d == jwtDecode(tok) IN
  IF d.kind = "throw"
  THEN ThrowBool(InternalError(<<"The format of the token was invalid: ">>
                               \o ErrToString(d.err) \o <<".">>))
  ELSE IF d.payload.expKind = "absent" THEN RetBool(TRUE)
  ELSE RetBool(NotBefore(t, d.payload))

(***************************** HTTP ****************************************)
\* an answer of an endpoint: fetch rejects (net = FALSE) or resolves with a
\* response: res.ok, whether its body can be read, the body text, and for
\* the auth endpoint whether the body parses as JSON and its access_token
Resp(net, ok, readable, text, isJson, tok) ==
  [net |-> net, ok |-> ok, readable |-> readable, text |-> text,
   isJson |-> isJson, tok |-> tok]

NetFail == Resp(FALSE, FALSE, FALSE, "", FALSE, Undefined)
FetchFailed == Err("TypeError", <<"fetch failed">>)
BodyFailed == Err("TypeError", <<"terminated">>)
NotJson == Err("SyntaxError", <<"Unexpected token">>)

\* access tokens the auth endpoint hands out in the model
ServerTokens == {Garbage, JwtNoExp, Jwt(1), Jwt(MaxExp)}

AuthResponses ==
  {NetFail}
    \cup {Resp(TRUE, FALSE, r, "AuthError", FALSE, Undefined) : r \in BOOLEAN}
    \cup {Resp(TRUE, TRUE, FALSE, "", FALSE, Undefined)}
    \cup {Resp(TRUE, TRUE, TRUE, "<html>", FALSE, Undefined)}
    \cup {Resp(TRUE, TRUE, TRUE, "{}", TRUE, t) : t \in {Undefined, EmptyTok}}
    \cup {Resp(TRUE, TRUE, TRUE, "{access_token}", TRUE, t) : t \in ServerTokens}

ReportResponses ==
  {NetFail}
    \cup {Resp(TRUE, FALSE, r, "Error", FALSE, Undefined) : r \in BOOLEAN}
    \cup {Resp(TRUE, TRUE, r, "Report", FALSE, Undefined) : r \in BOOLEAN}

RetTok(tok) == [kind |-> "return", tok |-> tok, err |-> NoErr]
ThrowTok(err) == [kind |-> "throw", tok |-> Undefined, err |-> err]

\* the try block of getToken
getTokenTry(resp) ==
  IF ~resp.net THEN ThrowTok(FetchFailed)
  ELSE IF ~resp.ok
  THEN IF resp.readable
       THEN ThrowTok(InternalError(
              <<"An error occured during the auth request to Workday: ",
                resp.text, ".">>))
       ELSE ThrowTok(BodyFailed)
  ELSE IF ~resp.readable THEN ThrowTok(BodyFailed)
  ELSE IF ~resp.isJson THEN ThrowTok(NotJson)
  ELSE IF Falsy(resp.tok)
  THEN ThrowTok(InternalError(
         <<"An unexpected response was received from Workday.  access_token was not included">>))
  ELSE RetTok(resp.tok)

\* the catch block of getToken
getTokenCatch(err) ==
  IF ~isGeneratedError(err)
  THEN InternalError(<<"An error occured during the auth request to Workday: ">>
                     \o ErrToString(err) \o <<".">>)
  ELSE err

\* WorkdayClient.getToken of wdsdk-ts: no status check, no access_token
\* check, and every exception swallowed into ""
getTokenSilent(resp) ==
  IF ~resp.net \/ ~resp.readable \/ ~resp.isJson THEN RetTok(EmptyTok)
  ELSE RetTok(resp.tok)

getToken(resp) ==
  LET o == getTokenTry(resp) IN
  IF o.kind = "throw" THEN ThrowTok(getTokenCatch(o.err)) ELSE o

(***************************** the request URL *****************************)
Base == "https://example.com/"
Pair(key, val) == [key |-> key, val |-> val]
FormatPair(fmt) ==
  Pair("format", IF fmt = "json" THEN <<"j", "s", "o", "n">> ELSE <<"c", "s", "v">>)

\* application/x-www-form-urlencoded serialisation of one character
EncodeChar(c) ==
  CASE c = Space -> "+"
    [] c = Tab -> "%09"
    [] c = "!" -> "%21"
    [] OTHER -> c

EncodePair(pr) == <<pr.key, "=">> \o [i \in 1..Len(pr.val) |-> EncodeChar(pr.val[i])]

\* URLSearchParams.toString
Serialize(ps) == Join([i \in 1..Len(ps) |-> EncodePair(ps[i])], "&")

\* URL.toString: the base, and "?" and the query when there is one
toString(ps) ==
  IF ps = <<>> THEN <<Base>> ELSE <<Base, "?">> \o Serialize(ps)

\* URLSearchParams.delete(key): every pair of that key
\* variant: json() of wdsdk-ts, which appends format and never deletes it
DeleteKeyNever(ps, key) == ps

DeleteKey(ps, key) == SelectSeq(ps, LAMBDA pr : pr.key # key)

HasKey(ps, key) == \E i \in 1..Len(ps) : ps[i].key = key

(***************************** the calls ***********************************)
\* two calls may be in flight at once
Procs == {1, 2}
Terminal == {"json", "xml", "csv"}
Kinds == Terminal \cup {"auth"}
Appending == {"json", "csv"}

NoResp == Resp(FALSE, FALSE, FALSE, "none", FALSE, Undefined)
NoOut == [kind |-> "none", tok |-> Undefined, text |-> "", err |-> NoErr]
Returned(tok, text) == [kind |-> "return", tok |-> tok, text |-> text, err |-> NoErr]
Thrown(err) == [kind |-> "throw", tok |-> Undefined, text |-> "", err |-> err]
NoGet == [url |-> <<>>, bearer |-> Undefined]

\* one call of auth(), json(), xml() or csv(): where it is suspended and
\* what it holds in its locals (url, tok), the requests it has issued
\* (posts, gets, get), the answers it was given (rsp, gsp) and its result
Idle ==
  [pc |-> "idle", kind |-> "auth", url |-> <<>>, tok |-> Undefined,
   posts |-> 0, gets |-> 0, get |-> NoGet, out |-> NoOut,
   rsp |-> NoResp, gsp |-> NoResp]

\* a settled call: its locals are gone, its result and history remain
Settled(c, out) ==
  [c EXCEPT !.pc = "done", !.url = <<>>, !.tok = Undefined, !.get = NoGet,
            !.out = out]

\* the name each terminal method's catch block puts in its message
CatchLabel(kind) ==
  IF kind = "json" THEN "An error occured during the JSON request to Workday: "
  ELSE "An error occured during the XML request to Workday: "

\* variant: the catch block wraps whatever it catches
terminalCatchAlways(kind, err) ==
  IF kind = "auth" THEN err
  ELSE InternalError(<<CatchLabel(kind)>> \o ErrToString(err) \o <<".">>)

\* the catch block of json(), xml(), csv(); auth() itself has none
terminalCatch(kind, err) ==
  IF kind = "auth" THEN err
  ELSE IF ~isGeneratedError(err)
  THEN InternalError(<<CatchLabel(kind)>> \o ErrToString(err) \o <<".">>)
  ELSE err

\* getWorkdayRes of wdsdk-ts: the response is handed on whatever its status
getWorkdayResNoCheck(resp) ==
  IF ~resp.net THEN Thrown(FetchFailed)
  ELSE IF ~resp.readable THEN Thrown(BodyFailed)
  ELSE Returned(Undefined, resp.text)

\* getWorkdayRes from the answer of its fetch on, and the caller's res.text()
getWorkdayRes(resp) ==
  IF ~resp.net THEN Thrown(FetchFailed)
  ELSE IF ~resp.ok
  THEN IF resp.readable
       THEN Thrown(InternalError(
              <<"An error occured during the request to Workday: ", resp.text, ".">>))
       ELSE Thrown(BodyFailed)
  ELSE IF ~resp.readable THEN Thrown(BodyFailed)
  ELSE Returned(Undefined, resp.text)

\* !this.token || isTokenExpired(this.token)
needsRefresh(tok, t) ==
  IF Falsy(tok) THEN RetBool(TRUE) ELSE isTokenExpired(tok, t)

\* variant: the field is assigned whether or not getToken succeeded
authStoreAlways(cur, o) == o.tok

\* const token = await this.getToken(); this.token = token
authStore(cur, o) == IF o.kind = "return" THEN o.tok ELSE cur

(***************************** the state machine ***************************)
NoBool == [kind |-> "none", val |-> FALSE, err |-> NoErr]
NoStr == [kind |-> "none", val |-> <<>>]

Init ==
  /\ now = 0
  /\ token = Undefined
  /\ params = <<>>
  /\ added = <<>>
  /\ calls = [p \in Procs |-> Idle]
  /\ fmtIn = StrArg(<<>>)
  /\ fmtOut = NoStr
  /\ expOut = NoBool

\* param(key, val)
Param(key, val) ==
  /\ Len(added) < MaxParams
  /\ params' = Append(params, Pair(key, formatQueryParams(val)))
  /\ added' = Append(added, Pair(key, formatQueryParams(val)))
  /\ UNCHANGED <<now, token, calls, fmtIn, fmtOut, expOut>>

\* a call of kind k starts and runs to its first suspension: json() and
\* csv() append format, serialise and delete; then auth() tests the cache
\* and either throws, returns the cached token, or POSTs to the auth endpoint
Start(p, k) ==
  /\ calls[p].pc = "idle"
  /\ \A q \in Procs : q < p => calls[q].pc # "idle"
  /\ LET withFmt == IF k \in Appending THEN Append(params, FormatPair(k)) ELSE params
         u == IF k = "auth" THEN <<>> ELSE toString(withFmt)
         e == needsRefresh(token, now)
         c == [Idle EXCEPT !.kind = k, !.url = u]
     IN /\ params' = IF k \in Appending THEN DeleteKey(withFmt, "format") ELSE params
        /\ calls' = [calls EXCEPT ![p] =
             IF e.kind = "throw" THEN Settled(c, Thrown(terminalCatch(k, e.err)))
             ELSE IF e.val THEN [c EXCEPT !.pc = "awaitPost", !.posts = 1]
             ELSE IF k = "auth" THEN Settled(c, Returned(token, ""))
             ELSE [c EXCEPT !.pc = "authOk", !.tok = token]]
  /\ UNCHANGED <<now, token, added, fmtIn, fmtOut, expOut>>

\* the auth endpoint answers: getToken finishes, and auth() stores and
\* returns the token, or the failure surfaces.  The awaits between the
\* answer and the assignment (res.text(), res.json(), the return of
\* getToken) read and write nothing shared, so they are one step.
AuthRespond(p, resp) ==
  /\ calls[p].pc = "awaitPost"
  /\ LET o == getToken(resp)
         c == [calls[p] EXCEPT !.rsp = resp]
     IN /\ token' = authStore(token, o)
        /\ calls' = [calls EXCEPT ![p] =
             IF o.kind = "throw" THEN Settled(c, Thrown(terminalCatch(c.kind, o.err)))
             ELSE IF c.kind = "auth" THEN Settled(c, Returned(token', ""))
             ELSE [c EXCEPT !.pc = "authOk", !.tok = token']]
  /\ UNCHANGED <<now, params, added, fmtIn, fmtOut, expOut>>

\* getWorkdayRes resumes with the token and issues the GET
SendGet(p) ==
  /\ calls[p].pc = "authOk"
  /\ calls' = [calls EXCEPT ![p] =
       [@ EXCEPT !.pc = "awaitGet", !.gets = @ + 1,
                 !.get = [url |-> calls[p].url, bearer |-> calls[p].tok]]]
  /\ UNCHANGED <<now, token, params, added, fmtIn, fmtOut, expOut>>

\* the report endpoint answers: the body is returned or the failure surfaces
GetRespond(p, resp) ==
  /\ calls[p].pc = "awaitGet"
  /\ LET o == getWorkdayRes(resp)
         c == [calls[p] EXCEPT !.gsp = resp]
     IN calls' = [calls EXCEPT ![p] =
          IF o.kind = "throw" THEN Settled(c, Thrown(terminalCatch(c.kind, o.err)))
          ELSE Settled(c, Returned(Undefined, o.text))]
  /\ UNCHANGED <<now, token, params, added, fmtIn, fmtOut, expOut>>

\* the caller takes the result
Finish(p) ==
  /\ calls[p].pc = "done"
  /\ calls' = [calls EXCEPT ![p] = Idle]
  /\ UNCHANGED <<now, token, params, added, fmtIn, fmtOut, expOut>>

\* time passes
Tick ==
  /\ now < MaxNow * MsPerSec
  /\ now' = now + ClockStep
  /\ UNCHANGED <<token, params, added, calls, fmtIn, fmtOut, expOut>>

\* the client: calls of every kind on a request without parameters, every
\* answer of the two endpoints, and the clock
Next ==
  \/ \E p \in Procs, k \in Kinds : Start(p, k)
  \/ \E p \in Procs, resp \in AuthResponses : AuthRespond(p, resp)
  \/ \E p \in Procs : SendGet(p)
  \/ \E p \in Procs, resp \in ReportResponses : GetRespond(p, resp)
  \/ \E p \in Procs : Finish(p)
  \/ Tick

Spec == Init /\ [][Next]_vars

(***************************** one request, reused *************************)
\* the prompts a caller adds: a key of its own or the key json() and csv()
\* use themselves, with a single value or a list of values
ParamKeys == {"myKey", "format"}
ParamArgs == {StrArg(<<"a">>), ListArg(<< <<"a", Space>>, <<"a">> >>)}

\* the auth endpoint fails or hands out a token that stays valid; the
\* report endpoint answers with a success or a non-success status
ReqAuthResponses == {NetFail, Resp(TRUE, TRUE, TRUE, "{access_token}", TRUE, Jwt(MaxNow + 1))}
ReqReportResponses ==
  {Resp(TRUE, ok, TRUE, IF ok THEN "Report" ELSE "Error", FALSE, Undefined) : ok \in BOOLEAN}

\* one WorkdayRequest: param() calls and terminal calls, which may overlap
NextReq ==
  \/ \E key \in ParamKeys, val \in ParamArgs : Param(key, val)
  \/ \E p \in Procs, k \in Terminal : Start(p, k)
  \/ \E p \in Procs, resp \in ReqAuthResponses : AuthRespond(p, resp)
  \/ \E p \in Procs : SendGet(p)
  \/ \E p \in Procs, resp \in ReqReportResponses : GetRespond(p, resp)
  \/ \E p \in Procs : Finish(p)

SpecReq == Init /\ [][NextReq]_vars

(***************************** isTokenExpired alone ************************)
InitExp ==
  /\ now \in Times
  /\ token \in Strings
  /\ params = <<>>
  /\ added = <<>>
  /\ calls = [p \in Procs |-> Idle]
  /\ fmtIn = StrArg(<<>>)
  /\ fmtOut = NoStr
  /\ expOut = NoBool

\* isTokenExpired(token) at time now
CheckExpired ==
  /\ expOut.kind = "none"
  /\ expOut' = isTokenExpired(token, now)
  /\ UNCHANGED <<now, token, params, added, calls, fmtIn, fmtOut>>

NextExp == CheckExpired

SpecExp == InitExp /\ [][NextExp]_vars

(***************************** formatQueryParams alone *********************)
FmtInputs ==
  {StrArg(s) : s \in Strs(MaxLen)} \cup {ListArg(l) : l \in Lists(MaxList, MaxLen)}

InitFmt ==
  /\ now = 0
  /\ token = Undefined
  /\ params = <<>>
  /\ added = <<>>
  /\ calls = [p \in Procs |-> Idle]
  /\ fmtIn \in FmtInputs
  /\ fmtOut = NoStr
  /\ expOut = NoBool

\* formatQueryParams(fmtIn)
Format ==
  /\ fmtOut.kind = "none"
  /\ fmtOut' = [kind |-> "return", val |-> formatQueryParams(fmtIn)]
  /\ UNCHANGED <<now, token, params, added, calls, fmtIn, expOut>>

NextFmt == Format

SpecFmt == InitFmt /\ [][NextFmt]_vars

(***************************** properties **********************************)
StartsCall(p) == calls[p].pc = "idle" /\ calls'[p].pc # "idle"
EndsRefresh(p) == calls[p].pc = "awaitPost" /\ calls'[p].pc # "awaitPost"

\* the auth endpoint answered with a non-success status / granted a token
HttpFailure(r) == r.net /\ ~r.ok
TokenGranted(r) == r.net /\ r.ok /\ r.readable /\ r.isJson /\ ~Falsy(r.tok)
NoAccessToken(r) == r.net /\ r.ok /\ r.readable /\ r.isJson /\ Falsy(r.tok)

\* call c's authenticate() step has returned token t
AuthGave(c, t) ==
  \/ c.pc = "authOk" /\ c.tok = t
  \/ c.pc = "done" /\ c.kind = "auth" /\ c.out = Returned(t, "")

\* C1: authenticate() returns the cached token without a POST whenever a
\* token is cached and isExpired(token) is false; otherwise it performs
\* exactly one refresh, and when the refresh succeeds the refreshed token is
\* stored as the cached token and returned.
C1_CachedOrOneRefresh ==
  [][\A p \in Procs :
       /\ StartsCall(p) =>
            IF token # Undefined /\ isTokenExpired(token, now) = RetBool(FALSE)
            THEN calls'[p].posts = 0 /\ token' = token /\ AuthGave(calls'[p], token)
            ELSE calls'[p].posts = 1
       /\ EndsRefresh(p) =>
            /\ calls'[p].posts = 1
            /\ TokenGranted(calls'[p].rsp) =>
                 token' = calls'[p].rsp.tok /\ AuthGave(calls'[p], token')]_vars

\* C2: a json() or csv() call leaves the stored parameters without a format
\* parameter and equal to the parameters accumulated through param(), in
\* order; no later step of the call, success or failure, touches them (so a
\* following xml() serialises them without format).
C2_FormatRemovedParamsKept ==
  [][/\ \A p \in Procs :
          (StartsCall(p) /\ calls'[p].kind \in Appending) =>
            ~HasKey(params', "format") /\ params' = added
     /\ (added' = added /\ \A p \in Procs : ~StartsCall(p)) => params' = params]_vars

FormatOf(kind) == IF kind \in Appending THEN <<FormatPair(kind)>> ELSE <<>>

\* C3: a json(), xml() or csv() call whose authenticate() succeeds issues
\* exactly one GET, with the Bearer token authenticate() returned, to the
\* URL whose query is the parameters added by param(), in call order,
\* followed by format=json, format=csv or, for xml(), nothing.
C3_OneGetWithTokenAndQuery ==
  [][\A p \in Procs :
       /\ (StartsCall(p) /\ calls'[p].pc # "done") =>
            calls'[p].url = toString(added \o FormatOf(calls'[p].kind))
       /\ (calls[p].pc = "authOk" /\ calls'[p].pc # "authOk") =>
            /\ calls'[p].pc = "awaitGet" /\ calls'[p].gets = 1
            /\ calls'[p].get = [url |-> calls[p].url, bearer |-> calls[p].tok]
       /\ (calls[p].pc = "awaitGet" /\ calls'[p].pc # "awaitGet") =>
            calls'[p].pc = "done" /\ calls'[p].gets = 1]_vars

\* C4: a non-success HTTP response from the report endpoint makes json(),
\* xml() and csv() fail with InternalError, the response body text (when
\* the body could be read) in the message, and no body returned.
C4_ReportFailureIsInternal ==
  \A p \in Procs :
    (calls[p].pc = "done" /\ HttpFailure(calls[p].gsp)) =>
      /\ calls[p].out.kind = "throw"
      /\ calls[p].out.err.class = "InternalError"
      /\ calls[p].gsp.readable => Contains(calls[p].out.err.msg, calls[p].gsp.text)
      /\ calls[p].out.text = ""

C4_Witness ==
  \E p, q \in Procs :
    /\ calls[p].pc = "done" /\ calls[p].kind = "csv"
    /\ calls[p].gsp = Resp(TRUE, FALSE, TRUE, "Error", FALSE, Undefined)
    /\ calls[q].pc = "done" /\ calls[q].kind = "xml"
    /\ calls[q].gsp = Resp(TRUE, FALSE, TRUE, "Error", FALSE, Undefined)

NumericExp(tok) == tok.shape = "jwt" /\ tok.expKind \in {"number", "numstr"}

\* C5: isTokenExpired is true when the exp claim (x 1000) is at or before
\* now (ms), false when it is after now, true when a decodable token has no
\* exp claim, and fails with InternalError when the token cannot be decoded
\* (the empty string included).
C5_IsExpired ==
  expOut.kind # "none" =>
    /\ (NumericExp(token) /\ token.exp * 1000 <= now) => expOut = RetBool(TRUE)
    /\ (NumericExp(token) /\ token.exp * 1000 > now) => expOut = RetBool(FALSE)
    /\ (token.shape = "jwt" /\ token.expKind = "absent") => expOut = RetBool(TRUE)
    /\ token.shape # "jwt" =>
         expOut.kind = "throw" /\ expOut.err.class = "InternalError"

C5_Witness ==
  /\ expOut = RetBool(TRUE)
  /\ token = Jwt(1)
  /\ now = 1000

\* each maximal run of whitespace replaced by one underscore
RECURSIVE Collapse(_)
Collapse(s) ==
  IF s = <<>> THEN <<>>
  ELSE IF Head(s) \in WhiteSpace
  THEN <<"_">> \o Collapse(TrimStart(s))
  ELSE <<Head(s)>> \o Collapse(Tail(s))

CollapsedValue(v) == Collapse(Trim(v))

\* C6 as stated: a list gives its values, each trimmed and with internal
\* whitespace collapsed to underscores, joined with "!"; a single string is
\* passed through unmodified.
C6_WhitespaceCollapsed ==
  fmtOut.kind # "none" =>
    fmtOut.val = IF fmtIn.tag = "string" THEN fmtIn.str
                 ELSE Join([i \in 1..Len(fmtIn.list) |-> CollapsedValue(fmtIn.list[i])], "!")

\* every space of the trimmed value replaced by one underscore, every other
\* character kept
UnderscoredValue(v) ==
  [i \in 1..Len(Trim(v)) |-> IF Trim(v)[i] = Space THEN "_" ELSE Trim(v)[i]]

\* C6 as amended: a list gives its values, each trimmed of leading and
\* trailing whitespace and with every remaining space character replaced by
\* one underscore (tabs inside a value are kept), joined with "!"; a single
\* string is passed through unmodified.
C6_SpacesToUnderscores ==
  fmtOut.kind # "none" =>
    fmtOut.val = IF fmtIn.tag = "string" THEN fmtIn.str
                 ELSE Join([i \in 1..Len(fmtIn.list) |-> UnderscoredValue(fmtIn.list[i])], "!")

C6_Witness ==
  /\ fmtIn = ListArg(<< <<Space, "a">>, <<"a", Space>> >>)
  /\ fmtOut = [kind |-> "return", val |-> <<"a", "!", "a">>]

\* call c has had its answer from the auth endpoint and none yet from the
\* report endpoint
AuthAnswered(c) == c.rsp # NoResp /\ c.gsp = NoResp

\* C7: refresh (getToken) fails with InternalError, the response body in
\* the message, on a non-success status; fails with the "unexpected
\* response" InternalError when a success response has no access_token;
\* otherwise returns exactly the access_token; never an empty or undefined
\* token.
C7_RefreshOutcome ==
  \A p \in Procs :
    LET c == calls[p]
        r == calls[p].rsp
    IN AuthAnswered(c) =>
         /\ HttpFailure(r) =>
              /\ c.out.kind = "throw" /\ c.out.err.class = "InternalError"
              /\ r.readable => Contains(c.out.err.msg, r.text)
         /\ NoAccessToken(r) =>
              c.out = Thrown(InternalError(
                <<"An unexpected response was received from Workday.  access_token was not included">>))
         /\ TokenGranted(r) => AuthGave(c, r.tok) \/ (c.pc = "awaitGet" /\ c.tok = r.tok)
         /\ c.pc \in {"authOk", "awaitGet"} => ~Falsy(c.tok)
         /\ (c.kind = "auth" /\ c.out.kind = "return") => ~Falsy(c.out.tok)

C7_Witness ==
  \E p, q \in Procs :
    /\ calls[p].kind = "auth" /\ calls[p].pc = "done"
    /\ calls[p].rsp = Resp(TRUE, FALSE, TRUE, "AuthError", FALSE, Undefined)
    /\ calls[q].kind = "auth" /\ calls[q].pc = "done"
    /\ calls[q].rsp = Resp(TRUE, TRUE, TRUE, "{}", TRUE, Undefined)

Count(msg, frags) == Cardinality({i \in 1..Len(msg) : msg[i] \in frags})
ForeignClasses == {"TypeError", "SyntaxError", "InvalidTokenError"}
TerminalLabels == {CatchLabel(k) : k \in Terminal}

\* C8: every failure auth(), json(), xml() or csv() surfaces is an
\* InternalError; a transport or parsing exception is wrapped exactly once;
\* an error that is already internal propagates unchanged: no second
\* wrapping, and an auth failure inside a report fetch carries no
\* report-request prefix.
C8_InternalWrappedOnce ==
  \A p \in Procs :
    LET c == calls[p]
        m == calls[p].out.err.msg
    IN c.out.kind = "throw" =>
         /\ c.out.err.class = "InternalError"
         /\ Count(m, WrapPrefixes) <= 1
         /\ Count(m, ForeignClasses) = 1 => Count(m, WrapPrefixes) = 1
         /\ (c.gets = 0 /\ HttpFailure(c.rsp) /\ c.rsp.readable) =>
              m = <<"An error occured during the auth request to Workday: ", c.rsp.text, ".">>
         /\ c.gets = 0 => Count(m, TerminalLabels) = 0

C8_Witness ==
  \E p, q \in Procs :
    /\ calls[p].kind = "json" /\ calls[p].out.kind = "throw" /\ calls[p].rsp = NetFail
    /\ calls[q].kind = "xml" /\ calls[q].out.kind = "throw" /\ calls[q].gsp = NetFail

\* C9: the cached token is undefined or a well-formed token whose expiry
\* was validated when it was stored.
C9_CachedTokenValidated ==
  [][token' # token =>
       token'.shape = "jwt" /\ isTokenExpired(token', now') = RetBool(FALSE)]_vars

\* C10: under any interleaving of overlapping authenticate() calls each
\* call triggers at most one refresh, the token field changes only to the
\* whole access_token of a refresh that has just completed successfully,
\* and a failed refresh leaves it unchanged.
C10_NoCorruption ==
  [][/\ \A p \in Procs : calls'[p].posts <= 1
     /\ token' # token =>
          \E p \in Procs :
            EndsRefresh(p) /\ TokenGranted(calls'[p].rsp) /\ token' = calls'[p].rsp.tok
     /\ \A p \in Procs :
          (EndsRefresh(p) /\ ~TokenGranted(calls'[p].rsp)) => token' = token]_vars

C10_Witness ==
  \E p, q \in Procs :
    /\ calls[p].pc = "awaitPost"
    /\ calls[q].posts = 1 /\ calls[q].rsp = NetFail
    /\ token = Jwt(1)

\* a call that has started and not settled
InFlight(c) == c.pc \in {"awaitPost", "authOk", "awaitGet"}

\* the last fragments of URL u are the serialised pair pr
EndsWith(u, pr) ==
  /\ Len(u) >= Len(EncodePair(pr))
  /\ SubSeq(u, Len(u) - Len(EncodePair(pr)) + 1, Len(u)) = EncodePair(pr)

\* C11 as stated: when terminal calls overlap on one WorkdayRequest, the GET
\* of an xml() call carries no format parameter, the GET of a json() call
\* exactly one, format=json, and the GET of a csv() call exactly one,
\* format=csv.
C11_OnlyOwnFormat ==
  \A p, q \in Procs :
    (p # q /\ calls[p].pc = "awaitGet" /\ InFlight(calls[q])) =>
      LET u == calls[p].get.url
          k == calls[p].kind
      IN IF k = "xml" THEN Count(u, {"format"}) = 0
         ELSE Count(u, {"format"}) = 1 /\ EndsWith(u, FormatPair(k))

RECURSIVE Pick(_, _, _)
Pick(s, S, i) ==
  IF i > Len(s) THEN <<>>
  ELSE (IF i \in S THEN <<s[i]>> ELSE <<>>) \o Pick(s, S, i + 1)

\* the parameters of s, some of them left out, in order
SubSeqs(s) == {Pick(s, S, 1) : S \in SUBSET (1..Len(s))}

\* C11 as amended: when terminal calls overlap on one WorkdayRequest, each
\* call's GET carries, besides parameters the caller added through param(),
\* only its own format: xml() adds no format parameter, json() exactly one
\* format=json and csv() exactly one format=csv, after the caller's
\* parameters; no call's GET carries the format another call appended.
C11_CallerParamsAndOwnFormat ==
  \A p \in Procs :
    calls[p].pc = "awaitGet" =>
      \E ps \in SubSeqs(added) :
        calls[p].get.url = toString(ps \o FormatOf(calls[p].kind))

C11_Witness ==
  /\ calls[1].kind = "json" /\ calls[1].pc = "awaitGet"
  /\ calls[1].get.url = <<Base, "?", "myKey", "=", "a", "&", "format", "=", "j", "s", "o", "n">>
  /\ calls[2].kind = "xml" /\ calls[2].pc = "awaitGet"
  /\ calls[2].get.url = <<Base, "?", "myKey", "=", "a">>

==========================================================================
